---- MODULE Spec2Model ----
(***************************************************************************)
(* Model of DelegationManager (src/src/plugin/background-agents.ts).       *)
(*                                                                         *)
(* JavaScript runs one continuation at a time: the code between two        *)
(* awaits is one atomic action, and every await is a point where other     *)
(* handlers run.  A Delegation object is identified by the session the     *)
(* substrate created for it (sessionID), so an object stays addressable    *)
(* by the closures that hold it after the Registry forgot it.              *)
(*                                                                         *)
(* Time is the variable now (milliseconds).  It moves only by Advance, to  *)
(* the next instant at which a timer or a polling loop has something to    *)
(* do.  Awaits on a session's work (session.messages, the metadata         *)
(* prompt, session.delete, session.prompt) may last arbitrarily long; an   *)
(* await on debugLog (one local appendFile) or on the set-up calls of      *)
(* delegate() is short against the 5 s gaps between the limits, so time    *)
(* does not advance while a continuation is suspended on one.              *)
(*                                                                         *)
(* The variable out holds what the current step made observable: the       *)
(* notification it sent or the value a call returned.  Every step sets it. *)
(***************************************************************************)
EXTENDS Integers, FiniteSets, Sequences, TLC

\* ----------------------------------------------------------------- bounds
MaxDeleg == 2        \* delegate() calls made in a run
MaxReaders == 1      \* readOutput() calls in progress at a time
MaxCancels == 1      \* deleteDelegation() calls made in a run
MaxInFlight == 2     \* continuations suspended at an await at a time
MaxFaults == 1       \* failures of the substrate or the file system in a run
Horizon == 0         \* the latest instant (ms) at which a tool call arrives
MaxIdle == 1         \* session.idle events the substrate emits for one session
MaxLinks == 11       \* parent links of the longest chain of sessions
MaxWalkers == 2      \* getRootSessionID() calls made in a run

\* ------------------------------------------------------ program constants
MAX_RUN_TIME_MS == 300000
TIMER_BUFFER_MS == 5000
WAIT_SLACK_MS == 10000
pollInterval == 1000
MAX_ID_ATTEMPTS == 10
MAX_DEPTH == 10              \* the bound of the loop of getRootSessionID
README_TIMEOUT_MS == 900000  \* the 15 minutes of the README

Objs == 1..MaxDeleg          \* Delegation objects, named by their sessionID
Readers == 1..MaxReaders
Cancels == 1..MaxCancels
Parents == {"p1", "p2"}      \* owner sessions (each is its own root)
Callers == {"p1"}            \* the session that reads and cancels
Ids == {"amber", "birch"}    \* the vocabulary of generateReadableId
None == 0
Sessions == 1..(MaxLinks + 1) \* the sessions of one tree of the substrate
Walkers == 1..MaxWalkers
Reported == {"complete", "timeout", "error"}

VARIABLES
    now,             \* Date.now()
    call,            \* delegate() invocations, one per object slot
    deleg,           \* the Delegation objects
    events,          \* session.idle events emitted so far for each session
    delegations,     \* DelegationManager.delegations: id -> object
    pendingByParent, \* DelegationManager.pendingByParent (absent = empty)
    batch,           \* history: the ids an owner registered since its pending set was last empty
    store,           \* the files <root>/<id>.md
    idle,            \* the handleSessionIdle invocation on each object
    tmo,             \* the timer of each delegate() call and its handleTimeout
    dispatch,        \* the promptAsync promise of each object and its catch
    reader,          \* readOutput invocations
    cancel,          \* deleteDelegation invocations
    faults,          \* failures injected so far
    out,             \* what this step sent or returned
    tree,            \* session.data.parentID of every session of the substrate
    resolve          \* getRootSessionID invocations

vars == <<now, call, deleg, events, delegations, pendingByParent, batch, store, idle, tmo,
          dispatch, reader, cancel, faults, out, tree, resolve>>

\* ------------------------------------------------------------- helpers
\* getRootSessionID: the owner sessions of the model have no parent.
RootOf(s) == s

\* findBySession(sessionID): the Registry entry whose sessionID is o.
findBySession(o) ==
    IF deleg[o].status # "none" /\ delegations[deleg[o].id] = o THEN o ELSE None

NoCall == [pc |-> "none", parent |-> "none", id |-> "none"]
NoDeleg == [id |-> "none", parent |-> "none", status |-> "none", title |-> FALSE,
            error |-> "none", startedAt |-> 0, completedAt |-> -1]
NoFile == [exists |-> FALSE, obj |-> None, title |-> FALSE, status |-> "none",
           completedAt |-> -1, body |-> "none"]
NoTimer == [pc |-> "unarmed", target |-> None, deleted |-> TRUE]
NoReader == [pc |-> "none", scope |-> "none", id |-> "none", obj |-> None,
             startTime |-> 0]
NoCancel == [pc |-> "none", scope |-> "none", id |-> "none", obj |-> None,
             deleted |-> TRUE]
NoOut == [kind |-> "none"]
NoWalk == [pc |-> "none", sessionID |-> None, currentID |-> None, depth |-> 0,
           lookups |-> 0, failed |-> FALSE]

\* A fault of line 526: only the header is written, the content is dropped.
FileOfWithoutContent(o, body) ==
    [exists |-> TRUE, obj |-> o, title |-> deleg[o].title, status |-> deleg[o].status,
     completedAt |-> deleg[o].completedAt, body |-> "none"]

\* The header persistOutput builds from the object's fields, plus the body.
FileOf(o, body) ==
    [exists |-> TRUE, obj |-> o, title |-> deleg[o].title, status |-> deleg[o].status,
     completedAt |-> deleg[o].completedAt, body |-> body]

\* persistOutput: fs.writeFile into the root directory of the parent session.
Written(o, body) ==
    [store EXCEPT ![<<RootOf(deleg[o].parent), deleg[o].id>>] = FileOf(o, body)]

\* The continuations that are suspended at an await.
InFlight ==
    Cardinality({o \in Objs : call[o].pc \in {"creating", "registered"}})
    + Cardinality({o \in Objs : idle[o] # "none"})
    + Cardinality({o \in Objs : tmo[o].pc \in {"guard", "mark", "persisted"}})
    + Cardinality({o \in Objs : dispatch[o] = "caught"})
    + Cardinality({r \in Readers : reader[r].pc # "none"})
    + Cardinality({c \in Cancels : cancel[c].pc \in {"deleting", "unlinking"}})

Room == InFlight < MaxInFlight

\* A tool call (delegate, delegation_read, a cancellation) may arrive.
Arrival == now <= Horizon /\ Room

\* One more failure of the substrate or of the file system.
Fault == faults < MaxFaults /\ faults' = faults + 1

\* persistOutput succeeds (ok) or fails.
Outcome(ok) == IF ok THEN faults' = faults ELSE Fault

Init ==
    /\ now = 0
    /\ call = [o \in Objs |-> NoCall]
    /\ deleg = [o \in Objs |-> NoDeleg]
    /\ events = [o \in Objs |-> 0]
    /\ delegations = [i \in Ids |-> None]
    /\ pendingByParent = [p \in Parents |-> {}]
    /\ batch = [p \in Parents |-> {}]
    /\ store = [k \in Parents \X Ids |-> NoFile]
    /\ idle = [o \in Objs |-> "none"]
    /\ tmo = [o \in Objs |-> NoTimer]
    /\ dispatch = [o \in Objs |-> "none"]
    /\ reader = [r \in Readers |-> NoReader]
    /\ cancel = [c \in Cancels |-> NoCancel]
    /\ faults = 0
    /\ out = NoOut
    /\ tree = [s \in Sessions |-> None]
    /\ resolve = [w \in Walkers |-> NoWalk]

\* ------------------------------------------------------------ delegate()
\* The n-th draw of generateReadableId in one delegate() call: the allocator
\* is random, so a call sees k draws of one word followed by draws of another.
Candidate(n, first, k, last) == IF n < k THEN first ELSE last

\* The collision loop (lines 273-278): re-roll while the candidate is a key of
\* the Registry and fewer than MAX_ID_ATTEMPTS re-rolls were made.
RECURSIVE CollisionLoopOneShort(_, _, _, _, _)
\* A fault of line 275: the loop gives up one re-roll early.
CollisionLoopOneShort(finalId, attempts, first, k, last) ==
    IF delegations[finalId] # None /\ attempts < MAX_ID_ATTEMPTS - 1
    THEN CollisionLoopOneShort(Candidate(attempts + 1, first, k, last), attempts + 1,
                               first, k, last)
    ELSE finalId

RECURSIVE CollisionLoop(_, _, _, _, _)
CollisionLoop(finalId, attempts, first, k, last) ==
    IF delegations[finalId] # None /\ attempts < MAX_ID_ATTEMPTS
    THEN CollisionLoop(Candidate(attempts + 1, first, k, last), attempts + 1,
                       first, k, last)
    ELSE finalId

\* The next free object slot: calls are numbered in the order they are made.
NextObj == CHOOSE o \in Objs : call[o].pc = "none" /\ \A q \in 1..(o - 1) : call[q].pc # "none"

\* Lines 267-289: draw an id, run the collision loop, throw if the final
\* candidate still collides, else ask the substrate for a session.  Owner
\* sessions and words are interchangeable: the first call of a run is taken
\* to come from p1 and to draw amber.
DelegateStart(p, first, k, last) ==
    /\ \E o \in Objs : call[o].pc = "none"
    /\ Arrival
    /\ call[1].pc = "none" => p = "p1" /\ first = "amber" /\ last = "amber"
    /\ LET o == NextObj
           finalId == CollisionLoop(Candidate(0, first, k, last), 0, first, k, last)
       IN IF delegations[finalId] # None
          THEN /\ call' = [call EXCEPT ![o].pc = "done"]
               /\ out' = [kind |-> "delegateThrew", obj |-> o, why |-> "id",
                          first |-> first, k |-> k, last |-> last]
          ELSE /\ call' = [call EXCEPT ![o] = [pc |-> "creating", parent |-> p,
                                               id |-> finalId]]
               /\ out' = [kind |-> "allocated", obj |-> o, id |-> finalId,
                          first |-> first, k |-> k, last |-> last]
    /\ UNCHANGED <<now, deleg, delegations, pendingByParent, store, idle, tmo,
                   dispatch, reader, cancel, faults, events, batch>>
    /\ UNCHANGED <<tree, resolve>>

\* A fault of lines 293-315: the delegation is registered and its timer armed
\* before the session id is looked at.
DelegateCreateFailAfterRegister(o) ==
    /\ call[o].pc = "creating"
    /\ Fault
    /\ call' = [call EXCEPT ![o] = [NoCall EXCEPT !.pc = "done"]]
    /\ deleg' = [deleg EXCEPT ![o] =
                    [id |-> call[o].id, parent |-> call[o].parent, status |-> "running",
                     title |-> FALSE, error |-> "none", startedAt |-> now,
                     completedAt |-> -1]]
    /\ delegations' = [delegations EXCEPT ![call[o].id] = o]
    /\ pendingByParent' = [pendingByParent EXCEPT ![call[o].parent] = @ \cup {call[o].id}]
    /\ batch' = [batch EXCEPT ![call[o].parent] = @ \cup {call[o].id}]
    /\ tmo' = [tmo EXCEPT ![o].pc = "armed"]
    /\ out' = [kind |-> "delegateThrew", obj |-> o, why |-> "create"]
    /\ UNCHANGED <<now, store, idle, dispatch, reader, cancel, events>>
    /\ UNCHANGED <<tree, resolve>>

\* Lines 284-295: session.create throws or returns no id.
DelegateCreateFail(o) ==
    /\ call[o].pc = "creating"
    /\ Fault
    /\ call' = [call EXCEPT ![o] = [NoCall EXCEPT !.pc = "done"]]
    /\ out' = [kind |-> "delegateThrew", obj |-> o, why |-> "create"]
    /\ UNCHANGED <<now, deleg, delegations, pendingByParent, store, idle, tmo,
                   dispatch, reader, cancel, events, batch>>
    /\ UNCHANGED <<tree, resolve>>

\* Lines 297-337: the session exists; build the Delegation, insert it in the
\* Registry, add its id to the owner's pending set, arm the timer.
DelegateRegister(o) ==
    /\ call[o].pc = "creating"
    /\ call' = [call EXCEPT ![o].pc = "registered"]
    /\ deleg' = [deleg EXCEPT ![o] =
                    [id |-> call[o].id, parent |-> call[o].parent, status |-> "running",
                     title |-> FALSE, error |-> "none", startedAt |-> now,
                     completedAt |-> -1]]
    /\ delegations' = [delegations EXCEPT ![call[o].id] = o]
    /\ pendingByParent' = [pendingByParent EXCEPT ![call[o].parent] = @ \cup {call[o].id}]
    /\ batch' = [batch EXCEPT ![call[o].parent] = @ \cup {call[o].id}]
    /\ tmo' = [tmo EXCEPT ![o].pc = "armed"]
    /\ out' = NoOut
    /\ UNCHANGED <<now, store, idle, dispatch, reader, cancel, faults, events>>
    /\ UNCHANGED <<tree, resolve>>

\* Line 340: ensureDelegationsDir throws after the registration.
DelegateDirFail(o) ==
    /\ call[o].pc = "registered"
    /\ Fault
    /\ call' = [call EXCEPT ![o] = [NoCall EXCEPT !.pc = "done"]]
    /\ out' = [kind |-> "delegateThrew", obj |-> o, why |-> "dir"]
    /\ UNCHANGED <<now, deleg, delegations, pendingByParent, store, idle, tmo,
                   dispatch, reader, cancel, events, batch>>
    /\ UNCHANGED <<tree, resolve>>

\* Lines 342-365: fire promptAsync (not awaited) and return the delegation.
DelegateReturn(o) ==
    /\ call[o].pc = "registered"
    /\ call' = [call EXCEPT ![o] = [NoCall EXCEPT !.pc = "done"]]
    /\ dispatch' = [dispatch EXCEPT ![o] = "pending"]
    /\ out' = [kind |-> "delegated", obj |-> o, id |-> call[o].id,
               parent |-> call[o].parent]
    /\ UNCHANGED <<now, deleg, delegations, pendingByParent, store, idle, tmo,
                   reader, cancel, faults, events, batch>>
    /\ UNCHANGED <<tree, resolve>>

\* ---------------------------------------------------------- notifyParent
\* A fault of lines 567-574: the filter forgets the owner.
CompletedDelegationsOfAnyOwner(p, dg) ==
    {dg[q].id : q \in {x \in Objs : /\ dg[x].status \in Reported
                                    /\ delegations[dg[x].id] = x}}

\* Lines 567-574: the delegations the triggering notification enumerates,
\* read from the objects dg that the Registry holds.
CompletedDelegations(p, dg) ==
    {dg[q].id : q \in {x \in Objs : /\ dg[x].status \in Reported
                                    /\ delegations[dg[x].id] = x
                                    /\ dg[x].parent = p}}

\* Lines 540-612, up to the call of client.session.prompt: drop the id from
\* the owner's pending set, decide allComplete, build and send the message.
\* dg holds the objects as they are when notifyParent is called.
NotifyParent(o, dg) ==
    LET p == dg[o].parent
        pendingSet == pendingByParent[p] \ {dg[o].id}
        allComplete == pendingSet = {}
        completed == CompletedDelegations(p, dg)
    IN /\ pendingByParent' = [pendingByParent EXCEPT ![p] = pendingSet]
       /\ batch' = IF allComplete THEN [batch EXCEPT ![p] = {}] ELSE batch
       /\ out' = [kind |-> "notify", to |-> p, noReply |-> ~allComplete,
                  id |-> dg[o].id, obj |-> o, status |-> dg[o].status,
                  listed |-> IF ~allComplete THEN {}
                             ELSE IF completed = {} THEN {dg[o].id} ELSE completed,
                  remaining |-> Cardinality(pendingSet)]

\* ----------------------------------------------------- handleSessionIdle
\* A fault of line 421: the guard forgets the status.
IdleGuardWithoutStatus(o) == findBySession(o) # None

\* Line 421: the guard of handleSessionIdle.
IdleGuard(o) == findBySession(o) # None /\ deleg[o].status = "running"

\* Lines 992-999 and 419-423: a session.idle event for the session of o.  The
\* substrate reports a session idle only after it accepted a prompt for it,
\* and at most MaxIdle times.
SessionIdle(o) ==
    /\ dispatch[o] = "accepted"
    /\ idle[o] = "none"
    /\ events[o] < MaxIdle
    /\ events' = [events EXCEPT ![o] = @ + 1]
    /\ IF IdleGuard(o)
       THEN Room /\ idle' = [idle EXCEPT ![o] = "guard"] /\ out' = NoOut
       ELSE idle' = idle /\ out' = [kind |-> "idleIgnored", obj |-> o]
    /\ UNCHANGED <<now, call, deleg, delegations, pendingByParent, store, tmo,
                   dispatch, reader, cancel, faults, batch>>
    /\ UNCHANGED <<tree, resolve>>

\* Lines 425-429: after the debugLog await, mark complete and ask for the result.
IdleMark(o) ==
    /\ idle[o] = "guard"
    /\ deleg' = [deleg EXCEPT ![o].status = "complete", ![o].completedAt = now]
    /\ idle' = [idle EXCEPT ![o] = "mark"]
    /\ out' = NoOut
    /\ UNCHANGED <<now, call, delegations, pendingByParent, store, tmo,
                   dispatch, reader, cancel, faults, events, batch>>
    /\ UNCHANGED <<tree, resolve>>

\* A fault of lines 464-472, 136-141 and 528-532: without the catch blocks a
\* failed call to the substrate or to the file system ends the handler.
AbsorbedOnlyIfOk(ok) == ok

\* Lines 492-497, 139-143 and 528-532: getResult, generateMetadata and
\* persistOutput catch what their calls throw and return; the handler goes
\* on whether the call went well (ok) or not.
Absorbed(ok) == TRUE

\* Lines 429-437: getResult and generateMetadata returned, from their calls
\* to the substrate (ok) or from their catch blocks with the fallback text
\* and the fallback title; set title and description, enter persistOutput.
IdleMeta(o, ok) ==
    /\ idle[o] = "mark"
    /\ Outcome(ok)
    /\ IF Absorbed(ok)
       THEN /\ deleg' = [deleg EXCEPT ![o].title = TRUE]
            /\ idle' = [idle EXCEPT ![o] = "meta"]
       ELSE /\ deleg' = deleg
            /\ idle' = [idle EXCEPT ![o] = "none"]
    /\ out' = NoOut
    /\ UNCHANGED <<now, call, delegations, pendingByParent, store, tmo,
                   dispatch, reader, cancel, events, batch>>
    /\ UNCHANGED <<tree, resolve>>

\* Lines 503-533: persistOutput writes the record, or fails and swallows it.
IdlePersist(o, ok) ==
    /\ idle[o] = "meta"
    /\ Outcome(ok)
    /\ store' = IF ok THEN Written(o, "result") ELSE store
    /\ idle' = [idle EXCEPT ![o] = IF Absorbed(ok) THEN "persisted" ELSE "none"]
    /\ out' = NoOut
    /\ UNCHANGED <<now, call, deleg, delegations, pendingByParent, tmo,
                   dispatch, reader, cancel, events, batch>>
    /\ UNCHANGED <<tree, resolve>>

\* Line 440: notifyParent.
IdleNotify(o) ==
    /\ idle[o] = "persisted"
    /\ NotifyParent(o, deleg)
    /\ idle' = [idle EXCEPT ![o] = "none"]
    /\ UNCHANGED <<now, call, deleg, delegations, store, tmo,
                   dispatch, reader, cancel, faults, events>>
    /\ UNCHANGED <<tree, resolve>>

\* ------------------------------------------------- timer and handleTimeout
\* A fault of line 337: the timer is set without the buffer.
TimerDeadlineWithoutBuffer(o) == deleg[o].startedAt + MAX_RUN_TIME_MS

\* A fault of line 169: the limit is the 15 minutes the README gives.
TimerDeadlineOfReadme(o) == deleg[o].startedAt + README_TIMEOUT_MS

\* Lines 332-337: the instant the timer armed at registration fires.
TimerDeadline(o) == deleg[o].startedAt + MAX_RUN_TIME_MS + TIMER_BUFFER_MS

\* Lines 333-334 and 372-373: the timer callback looks the id up in the
\* Registry; handleTimeout looks it up again in the same turn.
TimeoutGuard(t) == t # None /\ deleg[t].status = "running"

\* Lines 332-337, 371-375: the timer of the delegate() call that made o fires.
TimerFire(o) ==
    /\ tmo[o].pc = "armed"
    /\ now >= TimerDeadline(o)
    /\ LET t == delegations[deleg[o].id]
       IN IF TimeoutGuard(t)
          THEN Room /\ tmo' = [tmo EXCEPT ![o] = [NoTimer EXCEPT !.pc = "guard",
                                                                 !.target = t]]
                    /\ out' = NoOut
          ELSE /\ tmo' = [tmo EXCEPT ![o] = [NoTimer EXCEPT !.pc = "fired"]]
               /\ out' = [kind |-> "timerIgnored", obj |-> o, target |-> t]
    /\ UNCHANGED <<now, call, deleg, delegations, pendingByParent, store, idle,
                   dispatch, reader, cancel, faults, events, batch>>
    /\ UNCHANGED <<tree, resolve>>

\* Lines 377-382: after the debugLog await, mark timeout and ask the
\* substrate to delete the session.
TimeoutMark(o) ==
    /\ tmo[o].pc = "guard"
    /\ deleg' = [deleg EXCEPT ![tmo[o].target].status = "timeout",
                              ![tmo[o].target].completedAt = now,
                              ![tmo[o].target].error = "timeout"]
    /\ tmo' = [tmo EXCEPT ![o].pc = "mark"]
    /\ out' = NoOut
    /\ UNCHANGED <<now, call, delegations, pendingByParent, store, idle,
                   dispatch, reader, cancel, faults, events, batch>>
    /\ UNCHANGED <<tree, resolve>>

\* A fault of lines 382-388: without the try/catch a failed session.delete
\* ends handleTimeout.
ContinuesOnlyIfDeleted(deleted) == deleted

\* Lines 382-388: handleTimeout goes on whether session.delete returned
\* (deleted) or threw.
ContinuesAfterDelete(deleted) == TRUE

\* Lines 382-392: session.delete returned or threw; then getResult and the
\* persistOutput of the partial result, which succeeds (ok) or fails.
TimeoutPersist(o, deleted, ok) ==
    /\ tmo[o].pc = "mark"
    /\ faults' = faults + (IF deleted THEN 0 ELSE 1) + (IF ok THEN 0 ELSE 1)
    /\ faults' <= MaxFaults
    /\ IF ContinuesAfterDelete(deleted)
       THEN /\ store' = IF ok THEN Written(tmo[o].target, "partial") ELSE store
            /\ tmo' = [tmo EXCEPT ![o].pc = "persisted", ![o].deleted = deleted]
       ELSE /\ store' = store
            /\ tmo' = [tmo EXCEPT ![o] = [NoTimer EXCEPT !.pc = "fired",
                                                         !.deleted = deleted]]
    /\ out' = NoOut
    /\ UNCHANGED <<now, call, deleg, delegations, pendingByParent, idle,
                   dispatch, reader, cancel, events, batch>>
    /\ UNCHANGED <<tree, resolve>>

\* Line 395: notifyParent.
TimeoutNotify(o) ==
    /\ tmo[o].pc = "persisted"
    /\ NotifyParent(tmo[o].target, deleg)
    /\ tmo' = [tmo EXCEPT ![o] = [NoTimer EXCEPT !.pc = "fired",
                                                 !.deleted = tmo[o].deleted]]
    /\ UNCHANGED <<now, call, deleg, delegations, store, idle,
                   dispatch, reader, cancel, faults, events>>
    /\ UNCHANGED <<tree, resolve>>

\* ------------------------------------------------ promptAsync(...).catch
\* Lines 343-356: promptAsync resolves as soon as the substrate has accepted
\* the prompt; nothing is chained on the fulfilled promise.
DispatchAccept(o) ==
    /\ dispatch[o] = "pending"
    /\ dispatch' = [dispatch EXCEPT ![o] = "accepted"]
    /\ out' = NoOut
    /\ UNCHANGED <<now, call, deleg, delegations, pendingByParent, store, idle, tmo,
                   reader, cancel, faults, events, batch>>
    /\ UNCHANGED <<tree, resolve>>

\* A fault of line 362: the catch marks and persists but does not notify.
DispatchFailUnnotified(o) ==
    /\ dispatch[o] = "pending"
    /\ Room
    /\ Fault
    /\ deleg' = [deleg EXCEPT ![o].status = "error", ![o].error = "dispatch",
                              ![o].completedAt = now]
    /\ dispatch' = [dispatch EXCEPT ![o] = "caught"]
    /\ out' = NoOut
    /\ UNCHANGED <<now, call, delegations, pendingByParent, batch, store, idle, tmo,
                   reader, cancel, events>>
    /\ UNCHANGED <<tree, resolve>>

\* Lines 357-363: the dispatch is rejected.  The catch marks the delegation,
\* starts persistOutput without awaiting it and calls notifyParent, whose
\* message is sent before persistOutput reaches its first write.
DispatchFail(o) ==
    /\ dispatch[o] = "pending"
    /\ Room
    /\ Fault
    /\ LET dg == [deleg EXCEPT ![o].status = "error", ![o].error = "dispatch",
                                ![o].completedAt = now]
       IN deleg' = dg /\ NotifyParent(o, dg)
    /\ dispatch' = [dispatch EXCEPT ![o] = "caught"]
    /\ UNCHANGED <<now, call, delegations, store, idle, tmo, reader, cancel, events>>
    /\ UNCHANGED <<tree, resolve>>

\* Line 361: the persistOutput the catch started writes the record, or fails.
CatchPersist(o, ok) ==
    /\ dispatch[o] = "caught"
    /\ Outcome(ok)
    /\ store' = IF ok THEN Written(o, "error") ELSE store
    /\ dispatch' = [dispatch EXCEPT ![o] = "settled"]
    /\ out' = NoOut
    /\ UNCHANGED <<now, call, deleg, delegations, pendingByParent, idle, tmo,
                   reader, cancel, events, batch>>
    /\ UNCHANGED <<tree, resolve>>

\* ------------------------------------------------------- deleteDelegation
\* Lines 730-742 and 753: look the id up; a running delegation is cancelled
\* after awaiting session.delete, any other entry is dropped at once.
CancelStart(c, scope, id) ==
    /\ cancel[c].pc = "none"
    /\ Arrival
    /\ LET d == delegations[id]
       IN IF d # None /\ deleg[d].status = "running"
          THEN /\ cancel' = [cancel EXCEPT ![c] = [NoCancel EXCEPT !.pc = "deleting",
                                 !.scope = scope, !.id = id, !.obj = d]]
               /\ UNCHANGED delegations
          ELSE /\ cancel' = [cancel EXCEPT ![c] = [NoCancel EXCEPT !.pc = "unlinking",
                                 !.scope = scope, !.id = id, !.obj = d]]
               /\ delegations' = [delegations EXCEPT ![id] = None]
    /\ out' = NoOut
    /\ UNCHANGED <<now, call, deleg, pendingByParent, store, idle, tmo, dispatch,
                   reader, faults, events, batch>>
    /\ UNCHANGED <<tree, resolve>>

\* A fault of lines 744-750: without the try/catch a failed session.delete
\* ends deleteDelegation before the delegation is marked.
MarksOnlyIfDeleted(deleted) == deleted

\* Lines 744-752: the delegation is marked whether session.delete returned
\* (deleted) or threw.
MarksAfterDelete(deleted) == TRUE

\* Lines 743-753: session.delete returned or threw; mark the object cancelled
\* and delete the Registry key.
CancelMark(c, deleted) ==
    /\ cancel[c].pc = "deleting"
    /\ Outcome(deleted)
    /\ IF MarksAfterDelete(deleted)
       THEN /\ deleg' = [deleg EXCEPT ![cancel[c].obj].status = "cancelled",
                                      ![cancel[c].obj].completedAt = now]
            /\ delegations' = [delegations EXCEPT ![cancel[c].id] = None]
            /\ cancel' = [cancel EXCEPT ![c].pc = "unlinking", ![c].deleted = deleted]
       ELSE /\ UNCHANGED <<deleg, delegations>>
            /\ cancel' = [cancel EXCEPT ![c] = [NoCancel EXCEPT !.pc = "done"]]
    /\ out' = NoOut
    /\ UNCHANGED <<now, call, pendingByParent, store, idle, tmo, dispatch, reader, events, batch>>
    /\ UNCHANGED <<tree, resolve>>

\* A fault of lines 759-760: the file is removed with a call that does not
\* fail on a missing file, and true is returned whenever it did not throw.
CancelUnlinkForced(c, ok) ==
    /\ cancel[c].pc = "unlinking"
    /\ LET k == <<RootOf(cancel[c].scope), cancel[c].id>>
       IN /\ ok \/ store[k].exists
          /\ Outcome(ok)
          /\ store' = IF ok THEN [store EXCEPT ![k] = NoFile] ELSE store
          /\ out' = [kind |-> "deleted", scope |-> cancel[c].scope, id |-> cancel[c].id,
                     obj |-> cancel[c].obj, result |-> ok,
                     existed |-> store[k].exists, deleted |-> cancel[c].deleted]
    /\ cancel' = [cancel EXCEPT ![c] = [NoCancel EXCEPT !.pc = "done"]]
    /\ UNCHANGED <<now, call, deleg, delegations, pendingByParent, idle, tmo,
                   dispatch, reader, events, batch>>
    /\ UNCHANGED <<tree, resolve>>

\* Lines 756-764: unlink the record; true exactly when the unlink succeeded
\* (ok: the file system did not fail on a file that is there).
CancelUnlink(c, ok) ==
    /\ cancel[c].pc = "unlinking"
    /\ LET k == <<RootOf(cancel[c].scope), cancel[c].id>>
       IN /\ ok \/ store[k].exists
          /\ Outcome(ok)
          /\ store' = IF ok THEN [store EXCEPT ![k] = NoFile] ELSE store
          /\ out' = [kind |-> "deleted", scope |-> cancel[c].scope, id |-> cancel[c].id,
                     obj |-> cancel[c].obj, result |-> ok /\ store[k].exists,
                     existed |-> store[k].exists, deleted |-> cancel[c].deleted]
    /\ cancel' = [cancel EXCEPT ![c] = [NoCancel EXCEPT !.pc = "done"]]
    /\ UNCHANGED <<now, call, deleg, delegations, pendingByParent, idle, tmo,
                   dispatch, reader, events, batch>>
    /\ UNCHANGED <<tree, resolve>>

\* ---------------------------------------- readOutput and waitForCompletion
WaitLimit == MAX_RUN_TIME_MS + WAIT_SLACK_MS

\* A fault of lines 408-411: the loop forgets the time limit.
WaitConditionWithoutLimit(status, elapsed) == status = "running"

\* Lines 408-411: the condition of the polling loop.
WaitCondition(status, elapsed) == status = "running" /\ elapsed < WaitLimit

FileAt(scope, id) == store[<<RootOf(scope), id>>]

\* What readOutput returns: the file, the synthesized status message, or the
\* not-found error; waited tells whether it went through waitForCompletion
\* and on which object.
ReadResult(r, result, waited, obj) ==
    [kind |-> "read", scope |-> reader[r].scope, id |-> reader[r].id,
     result |-> result, file |-> FileAt(reader[r].scope, reader[r].id),
     waited |-> waited, obj |-> obj]

\* The plugin process was restarted: the calls of the old process are gone.
Restarted == \E o \in Objs : call[o].pc = "gone"

\* Line 627: readOutput is called; it awaits getDelegationsDir.  A new process
\* is read from at any time.
ReadStart(r, scope, id) ==
    /\ reader[r].pc = "none"
    /\ Arrival \/ (Restarted /\ Room)
    /\ reader' = [reader EXCEPT ![r] = [NoReader EXCEPT !.pc = "access", !.scope = scope,
                                                        !.id = id]]
    /\ out' = NoOut
    /\ UNCHANGED <<now, call, deleg, delegations, pendingByParent, store, idle, tmo,
                   dispatch, cancel, faults, events, batch>>
    /\ UNCHANGED <<tree, resolve>>

\* Lines 630-645 and 665: return the record if the file is there; else look
\* the id up in the Registry and wait if it is running, throw otherwise.
ReadCheck(r) ==
    /\ reader[r].pc = "access"
    /\ LET d == delegations[reader[r].id]
       IN IF FileAt(reader[r].scope, reader[r].id).exists
          THEN /\ reader' = [reader EXCEPT ![r] = NoReader]
               /\ out' = ReadResult(r, "record", FALSE, None)
          ELSE IF d # None /\ deleg[d].status = "running"
          THEN /\ reader' = [reader EXCEPT ![r].pc = "logging", ![r].obj = d]
               /\ out' = NoOut
          ELSE /\ reader' = [reader EXCEPT ![r] = NoReader]
               /\ out' = ReadResult(r, "notFound", FALSE, d)
    /\ UNCHANGED <<now, call, deleg, delegations, pendingByParent, store, idle, tmo,
                   dispatch, cancel, faults, events, batch>>
    /\ UNCHANGED <<tree, resolve>>

\* Lines 401-406: waitForCompletion looks the id up again after the debugLog
\* await and returns at once if it is gone, else notes the start time.
WaitStart(r) ==
    /\ reader[r].pc = "logging"
    /\ LET d == delegations[reader[r].id]
       IN reader' = [reader EXCEPT ![r] =
            IF d = None THEN [@ EXCEPT !.pc = "reread"]
            ELSE [@ EXCEPT !.pc = "waiting", !.obj = d, !.startTime = now]]
    /\ out' = NoOut
    /\ UNCHANGED <<now, call, deleg, delegations, pendingByParent, store, idle, tmo,
                   dispatch, cancel, faults, events, batch>>
    /\ UNCHANGED <<tree, resolve>>

\* Lines 408-413: a poll that finds the loop condition false ends the wait.
WaitPoll(r) ==
    /\ reader[r].pc = "waiting"
    /\ ~WaitCondition(deleg[reader[r].obj].status, now - reader[r].startTime)
    /\ reader' = [reader EXCEPT ![r].pc = "reread"]
    /\ out' = NoOut
    /\ UNCHANGED <<now, call, deleg, delegations, pendingByParent, store, idle, tmo,
                   dispatch, cancel, faults, events, batch>>
    /\ UNCHANGED <<tree, resolve>>

\* Lines 647-665: read the file again; without it, report the status of a
\* Registry entry that is not running, else throw not-found.
ReadAgain(r) ==
    /\ reader[r].pc = "reread"
    /\ LET updated == delegations[reader[r].id]
       IN out' = ReadResult(r,
                    IF FileAt(reader[r].scope, reader[r].id).exists THEN "record"
                    ELSE IF updated # None /\ deleg[updated].status # "running"
                    THEN "status" ELSE "notFound",
                    TRUE, reader[r].obj)
    /\ reader' = [reader EXCEPT ![r] = NoReader]
    /\ UNCHANGED <<now, call, deleg, delegations, pendingByParent, store, idle, tmo,
                   dispatch, cancel, faults, events, batch>>
    /\ UNCHANGED <<tree, resolve>>

\* -------------------------------------------------------- listDelegations
IdSeq == <<"amber", "birch">>   \* Ids in the order the lists are walked

\* Lines 678-681: the title of a Registry entry, or the placeholder.
MemoryTitle(d) == IF deleg[d].title THEN "generated" ELSE "(generating...)"

\* Lines 697-701 over line 513: the first "# ..." line of the file is the
\* generated title, or the id when none was generated; a file that cannot be
\* read keeps the placeholder.
DiskTitle(f, id, ok) ==
    IF ~ok THEN "(loaded from storage)" ELSE IF f.title THEN "generated" ELSE id

\* Lines 675-682: one item for every entry of the Registry, whoever owns it.
MemoryItems ==
    LET ids == SelectSeq(IdSeq, LAMBDA i : delegations[i] # None)
    IN [n \in 1..Len(ids) |->
            [id |-> ids[n], status |-> deleg[delegations[ids[n]]].status,
             title |-> MemoryTitle(delegations[ids[n]]), from |-> "memory"]]

\* Lines 708-713: the item of a file of the scope's directory.
DiskItem(scope, id, ok) ==
    [id |-> id, status |-> "complete", title |-> DiskTitle(FileAt(scope, id), id, ok),
     from |-> "disk"]

\* A fault of line 693: the files are appended without the look-up.
ListedWithoutDedup(scope, ok) ==
    LET ids == SelectSeq(IdSeq, LAMBDA i : FileAt(scope, i).exists)
    IN MemoryItems \o [n \in 1..Len(ids) |-> DiskItem(scope, ids[n], ok)]

\* Lines 671-724: the Registry entries, then the files of the scope's
\* directory whose id is not among the results yet.
Listed(scope, ok) ==
    LET ids == SelectSeq(IdSeq, LAMBDA i : /\ FileAt(scope, i).exists
                                           /\ delegations[i] = None)
    IN MemoryItems \o [n \in 1..Len(ids) |-> DiskItem(scope, ids[n], ok)]

\* delegation_list (lines 905-918) calls listDelegations with the caller's
\* session; ok tells whether the files could be read (lines 695-706).
List(scope, ok) ==
    /\ ok \/ \E i \in Ids : FileAt(scope, i).exists /\ delegations[i] = None
    /\ Outcome(ok)
    /\ out' = [kind |-> "list", scope |-> scope, items |-> Listed(scope, ok)]
    /\ UNCHANGED <<now, call, deleg, delegations, pendingByParent, store, idle, tmo,
                   dispatch, reader, cancel, events, batch>>
    /\ UNCHANGED <<tree, resolve>>

\* ---------------------------------------------------------------- restart
\* A fault of lines 250-253: the records live under a directory that does not
\* outlast the process.
RestartLosingFiles ==
    /\ \E o \in Objs : call[o].pc \notin {"none", "gone"}
    /\ call' = [o \in Objs |-> IF call[o].pc = "none" THEN NoCall
                               ELSE [NoCall EXCEPT !.pc = "gone"]]
    /\ deleg' = [o \in Objs |-> NoDeleg]
    /\ events' = [o \in Objs |-> 0]
    /\ delegations' = [i \in Ids |-> None]
    /\ pendingByParent' = [p \in Parents |-> {}]
    /\ batch' = [p \in Parents |-> {}]
    /\ idle' = [o \in Objs |-> "none"]
    /\ tmo' = [o \in Objs |-> NoTimer]
    /\ dispatch' = [o \in Objs |-> "none"]
    /\ reader' = [r \in Readers |-> NoReader]
    /\ cancel' = [c \in Cancels |-> NoCancel]
    /\ store' = [k \in Parents \X Ids |-> NoFile]
    /\ out' = [kind |-> "restarted"]
    /\ UNCHANGED <<now, faults>>
    /\ UNCHANGED <<tree, resolve>>

\* The process ends and a new one is constructed (lines 211-221): the
\* Registry and the pending sets are empty, the timers and the suspended
\* continuations of the old process are gone; the files stay.
Restart ==
    /\ \E o \in Objs : call[o].pc \notin {"none", "gone"}
    /\ call' = [o \in Objs |-> IF call[o].pc = "none" THEN NoCall
                               ELSE [NoCall EXCEPT !.pc = "gone"]]
    /\ deleg' = [o \in Objs |-> NoDeleg]
    /\ events' = [o \in Objs |-> 0]
    /\ delegations' = [i \in Ids |-> None]
    /\ pendingByParent' = [p \in Parents |-> {}]
    /\ batch' = [p \in Parents |-> {}]
    /\ idle' = [o \in Objs |-> "none"]
    /\ tmo' = [o \in Objs |-> NoTimer]
    /\ dispatch' = [o \in Objs |-> "none"]
    /\ reader' = [r \in Readers |-> NoReader]
    /\ cancel' = [c \in Cancels |-> NoCancel]
    /\ out' = [kind |-> "restarted"]
    /\ UNCHANGED <<now, store, faults>>
    /\ UNCHANGED <<tree, resolve>>

\* ------------------------------------------------------------------ time
\* A continuation suspended on a short await: debugLog (lines 375, 423, 644),
\* the local calls inside delegate() (session.create, line 284, and the
\* session.get and mkdir of ensureDelegationsDir, line 340), or the request
\* of promptAsync (line 343), which the substrate answers on receipt.
ShortAwait ==
    \/ \E o \in Objs : idle[o] = "guard" \/ tmo[o].pc = "guard"
    \/ \E o \in Objs : call[o].pc \in {"creating", "registered"}
    \/ \E o \in Objs : dispatch[o] = "pending"
    \/ \E r \in Readers : reader[r].pc = "logging"

\* A timer whose time has come runs before time moves on.
TimerDue == \E o \in Objs : tmo[o].pc = "armed" /\ now >= TimerDeadline(o)

\* A polling loop whose condition is false ends at its next poll.
PollDue == \E r \in Readers : /\ reader[r].pc = "waiting"
                              /\ ~WaitCondition(deleg[reader[r].obj].status,
                                                now - reader[r].startTime)

\* The instants at which something is scheduled: the armed timers, and for a
\* polling loop the poll at which its time limit is reached (the polls before
\* it see what WaitPoll sees) or, past the limit, its next poll.
Wakeups ==
    {TimerDeadline(o) : o \in {x \in Objs : tmo[x].pc = "armed"}}
    \cup {IF now - reader[r].startTime < WaitLimit
          THEN reader[r].startTime + WaitLimit
          ELSE now + pollInterval : r \in {x \in Readers : reader[x].pc = "waiting"}}

Advance ==
    /\ ~ShortAwait /\ ~TimerDue /\ ~PollDue
    /\ Wakeups # {}
    /\ now' = CHOOSE t \in Wakeups : \A u \in Wakeups : t <= u
    /\ out' = NoOut
    /\ UNCHANGED <<call, deleg, delegations, pendingByParent, store, idle, tmo,
                   dispatch, reader, cancel, faults, events, batch>>
    /\ UNCHANGED <<tree, resolve>>

\* ------------------------------------------------------------------ Next
Next ==
    \/ \E p \in Parents, first \in Ids, last \in Ids, k \in {0, 1, MAX_ID_ATTEMPTS, MAX_ID_ATTEMPTS + 1} :
          DelegateStart(p, first, k, last)
    \/ \E o \in Objs : DelegateCreateFail(o)
    \/ \E o \in Objs : DelegateRegister(o)
    \/ \E o \in Objs : DelegateDirFail(o)
    \/ \E o \in Objs : DelegateReturn(o)
    \/ \E o \in Objs : SessionIdle(o)
    \/ \E o \in Objs : IdleMark(o)
    \/ \E o \in Objs, ok \in BOOLEAN : IdleMeta(o, ok)
    \/ \E o \in Objs, ok \in BOOLEAN : IdlePersist(o, ok)
    \/ \E o \in Objs : IdleNotify(o)
    \/ \E o \in Objs : TimerFire(o)
    \/ \E o \in Objs : TimeoutMark(o)
    \/ \E o \in Objs, deleted \in BOOLEAN, ok \in BOOLEAN : TimeoutPersist(o, deleted, ok)
    \/ \E o \in Objs : TimeoutNotify(o)
    \/ \E o \in Objs : DispatchAccept(o)
    \/ \E o \in Objs : DispatchFail(o)
    \/ \E o \in Objs, ok \in BOOLEAN : CatchPersist(o, ok)
    \/ \E c \in Cancels, scope \in Callers, id \in Ids : CancelStart(c, scope, id)
    \/ \E c \in Cancels, deleted \in BOOLEAN : CancelMark(c, deleted)
    \/ \E c \in Cancels, ok \in BOOLEAN : CancelUnlink(c, ok)
    \/ \E r \in Readers, scope \in Callers, id \in Ids : ReadStart(r, scope, id)
    \/ \E r \in Readers : ReadCheck(r)
    \/ \E r \in Readers : WaitStart(r)
    \/ \E r \in Readers : WaitPoll(r)
    \/ \E r \in Readers : ReadAgain(r)
    \/ Advance

Spec == Init /\ [][Next]_vars

\* The plugin with delegation_list and process restarts; deleteDelegation,
\* which no tool calls, is left out.
StoreNext ==
    \/ \E p \in Parents, first \in Ids, last \in Ids, k \in {0, 1, MAX_ID_ATTEMPTS, MAX_ID_ATTEMPTS + 1} :
          DelegateStart(p, first, k, last)
    \/ \E o \in Objs : DelegateCreateFail(o)
    \/ \E o \in Objs : DelegateRegister(o)
    \/ \E o \in Objs : DelegateDirFail(o)
    \/ \E o \in Objs : DelegateReturn(o)
    \/ \E o \in Objs : SessionIdle(o)
    \/ \E o \in Objs : IdleMark(o)
    \/ \E o \in Objs, ok \in BOOLEAN : IdleMeta(o, ok)
    \/ \E o \in Objs, ok \in BOOLEAN : IdlePersist(o, ok)
    \/ \E o \in Objs : IdleNotify(o)
    \/ \E o \in Objs : TimerFire(o)
    \/ \E o \in Objs : TimeoutMark(o)
    \/ \E o \in Objs, deleted \in BOOLEAN, ok \in BOOLEAN : TimeoutPersist(o, deleted, ok)
    \/ \E o \in Objs : TimeoutNotify(o)
    \/ \E o \in Objs : DispatchAccept(o)
    \/ \E o \in Objs : DispatchFail(o)
    \/ \E o \in Objs, ok \in BOOLEAN : CatchPersist(o, ok)
    \/ \E r \in Readers, scope \in Callers, id \in Ids : ReadStart(r, scope, id)
    \/ \E r \in Readers : ReadCheck(r)
    \/ \E r \in Readers : WaitStart(r)
    \/ \E r \in Readers : WaitPoll(r)
    \/ \E r \in Readers : ReadAgain(r)
    \/ \E scope \in Callers, ok \in BOOLEAN : List(scope, ok)
    \/ Restart
    \/ Advance

StoreSpec == Init /\ [][StoreNext]_vars

\* ------------------------------------------------------- getRootSessionID
\* The parent pointers of a chain of sessions: session s has parent s - 1 and
\* session 1 has the parent back, which is None for a root and a session of
\* the chain for a cycle.
Chain(back) == [s \in Sessions |-> IF s = 1 THEN back ELSE s - 1]

\* A fault of line 228: the loop runs one time less.
WithinDepthOneShort(depth) == depth < MAX_DEPTH - 1

\* Line 228: the condition of the for loop.
WithinDepth(depth) == depth < MAX_DEPTH

\* Lines 250-253: getDelegationsDir joins baseDir and the root id.
getDelegationsDir(rootID) == <<"baseDir", rootID>>

\* Lines 225-228: getRootSessionID is called for sessionID; currentID is
\* sessionID and depth is 0.  The invocations only read the substrate, so the
\* second is started after the first has returned.
RootCall(w, sessionID) ==
    /\ resolve[w].pc = "none"
    /\ \A v \in Walkers : v < w => resolve[v].pc = "returned"
    /\ resolve' = [resolve EXCEPT ![w] =
                        [NoWalk EXCEPT !.pc = IF WithinDepth(0) THEN "walking" ELSE "returned",
                                       !.sessionID = sessionID, !.currentID = sessionID]]
    /\ UNCHANGED <<now, call, deleg, events, delegations, pendingByParent, batch, store,
                   idle, tmo, dispatch, reader, cancel, faults, out, tree>>

\* Lines 228-245: one pass of the loop.  session.get throws (~ok) and
\* currentID is returned; or the session has no parentID and currentID is
\* returned; or currentID becomes the parent, depth is incremented, and the
\* function returns currentID if the loop condition fails.
RootLookup(w, ok) ==
    /\ resolve[w].pc = "walking"
    /\ LET r == resolve[w]
           parentID == tree[r.currentID]
       IN resolve' = [resolve EXCEPT ![w] =
            IF ~ok
            THEN [r EXCEPT !.pc = "returned", !.lookups = @ + 1, !.failed = TRUE]
            ELSE IF parentID = None
            THEN [r EXCEPT !.pc = "returned", !.lookups = @ + 1]
            ELSE [r EXCEPT !.pc = IF WithinDepth(r.depth + 1) THEN "walking" ELSE "returned",
                           !.currentID = parentID, !.depth = @ + 1, !.lookups = @ + 1]]
    /\ UNCHANGED <<now, call, deleg, events, delegations, pendingByParent, batch, store,
                   idle, tmo, dispatch, reader, cancel, faults, out, tree>>

\* The substrate holds a chain of sessions, rooted or cyclic.
RootInit ==
    /\ now = 0
    /\ call = [o \in Objs |-> NoCall]
    /\ deleg = [o \in Objs |-> NoDeleg]
    /\ events = [o \in Objs |-> 0]
    /\ delegations = [i \in Ids |-> None]
    /\ pendingByParent = [p \in Parents |-> {}]
    /\ batch = [p \in Parents |-> {}]
    /\ store = [k \in Parents \X Ids |-> NoFile]
    /\ idle = [o \in Objs |-> "none"]
    /\ tmo = [o \in Objs |-> NoTimer]
    /\ dispatch = [o \in Objs |-> "none"]
    /\ reader = [r \in Readers |-> NoReader]
    /\ cancel = [c \in Cancels |-> NoCancel]
    /\ faults = 0
    /\ out = NoOut
    /\ tree \in {Chain(back) : back \in {None} \cup Sessions}
    /\ resolve = [w \in Walkers |-> NoWalk]

RootNext ==
    \/ \E w \in Walkers, sessionID \in Sessions : RootCall(w, sessionID)
    \/ \E w \in Walkers, ok \in BOOLEAN : RootLookup(w, ok)

\* Every session.get settles: it returns or it throws.
RootSpec == RootInit /\ [][RootNext]_vars /\ WF_vars(RootNext)

\* ------------------------------------------------------------ properties
\* What a step made observable.
Notified(p) == out.kind = "notify" /\ out.to = p
Triggering(p) == Notified(p) /\ ~out.noReply
Silent(p) == Notified(p) /\ out.noReply

\* C1: a batch gets exactly one triggering notification, the one sent by the
\* step that removes the last id from the owner's pending set: a step sends
\* a triggering notification to p exactly when it empties p's pending set.
C1_OneTriggerPerBatch ==
    [][\A p \in Parents :
          Triggering(p)' <=> (pendingByParent[p] # {} /\ pendingByParent'[p] = {})]_vars

\* C2: a silent notification is sent by a step that takes one id out of the
\* owner's pending set and reports the number left, which is at least 1; so
\* the counts of a batch run strictly down from N-1 to 1.
C2_SilentCountsDown ==
    [][\A p \in Parents :
          Silent(p)' =>
             /\ out'.remaining = Cardinality(pendingByParent'[p])
             /\ out'.remaining >= 1
             /\ Cardinality(pendingByParent'[p]) = Cardinality(pendingByParent[p]) - 1]_vars

OwnersReported(p, reg, dg) ==
    {i \in Ids : /\ reg[i] # None
                 /\ dg[reg[i]].parent = p
                 /\ dg[reg[i]].status \in Reported}

C4_PersistBeforeNotify ==
    out.kind = "notify" =>
        /\ dispatch[out.obj] # "caught"
        /\ FileAt(out.to, out.id).exists

C6_ReturnedIsRegistered ==
    out.kind = "delegated" =>
        /\ delegations[out.id] = out.obj
        /\ deleg[out.obj].status = "running"
        /\ out.id \in pendingByParent[out.parent]

\* C7: a readOutput call that waited on a running delegation returns only
\* after the status of that delegation has left running.
C7_ReturnsOnlyAfterTerminal ==
    (out.kind = "read" /\ out.waited) => deleg[out.obj].status # "running"

\* handleSessionIdle or handleTimeout has set the status of object d and has
\* not yet finished the persistOutput call that follows (lines 425-437 and
\* 377-392).
PersistOutstanding(d) ==
    \/ idle[d] \in {"mark", "meta"}
    \/ \E o \in Objs : tmo[o].pc = "mark" /\ tmo[o].target = d

\* C8: when the delegation a readOutput call waited on ended complete or
\* timeout, the call returns the synthesized status message only once the
\* persistOutput call of the delegation is over (and left no record), never
\* while that call has yet to write the record.
C8_StatusMessageOnlyAfterPersist ==
    (/\ out.kind = "read" /\ out.result = "status"
     /\ deleg[out.obj].status \in {"complete", "timeout"}) =>
        ~PersistOutstanding(out.obj)

\* C9: a readOutput call is never suspended in waitForCompletion for longer
\* than MAX_RUN_TIME_MS plus the slack, counted from the start of the wait,
\* whatever happens to the delegation.
C9_WaitIsBounded ==
    \A r \in Readers :
        reader[r].pc = "waiting" => now - reader[r].startTime <= WaitLimit

\* A call is still waiting, on a delegation that is still running, at the
\* instant its limit is reached.
C9_Witness ==
    \E r \in Readers : /\ reader[r].pc = "waiting"
                        /\ now - reader[r].startTime = WaitLimit
                        /\ deleg[reader[r].obj].status = "running"

\* C10: readOutput reports not-found only for an id that is unknown: not for
\* an id the Registry holds, and not for one it waited on.
C10_NotFoundOnlyIfUnknown ==
    (out.kind = "read" /\ out.result = "notFound") =>
        delegations[out.id] = None /\ ~out.waited

C12_RecordsSurviveRestart ==
    [][/\ out'.kind = "restarted" =>
            /\ store' = store
            /\ \A i \in Ids : delegations'[i] = None
            /\ \A p \in Parents : pendingByParent'[p] = {}
       /\ (out'.kind = "read" /\ store[<<RootOf(out'.scope), out'.id>>].exists) =>
            /\ out'.result = "record"
            /\ out'.file = store[<<RootOf(out'.scope), out'.id>>]
       /\ out'.kind = "list" =>
            \A i \in Ids : store[<<RootOf(out'.scope), i>>].exists =>
                \E n \in 1..Len(out'.items) : out'.items[n].id = i]_vars

\* After a restart a read returns the record of a delegation the Registry
\* no longer knows.
C12_Witness ==
    /\ Restarted
    /\ out.kind = "read" /\ out.result = "record"
    /\ delegations[out.id] = None
    /\ out.file.body = "result"

Drawn(n) == Candidate(n, out.first, out.k, out.last)

\* C16: the allocation retry bound.  delegate() goes on under the first of
\* its draws that is not a key of the Registry, the first draw and up to
\* MAX_ID_ATTEMPTS re-rolls, and the delegation is registered under that id;
\* it throws the allocation error only when the first draw and all
\* MAX_ID_ATTEMPTS re-rolls collide, and then nothing is registered, no
\* session is asked for and no timer is armed.
C16_AllocationRetryBound ==
    /\ out.kind = "allocated" =>
         /\ \E n \in 0..MAX_ID_ATTEMPTS :
               /\ delegations[Drawn(n)] = None
               /\ \A m \in 0..(n - 1) : delegations[Drawn(m)] # None
               /\ out.id = Drawn(n)
         /\ call[out.obj].pc = "creating" /\ call[out.obj].id = out.id
    /\ (out.kind = "delegateThrew" /\ out.why = "id") =>
         /\ \A n \in 0..MAX_ID_ATTEMPTS : delegations[Drawn(n)] # None
         /\ call[out.obj].pc = "done"
         /\ deleg[out.obj] = NoDeleg
         /\ tmo[out.obj] = NoTimer /\ dispatch[out.obj] = "none"
         /\ \A i \in Ids : delegations[i] # out.obj
    /\ \A o \in Objs : call[o].pc = "registered" =>
         deleg[o].id = call[o].id /\ deleg[o].status # "none"

\* delegate() went on under its last re-roll after the first draw and nine
\* re-rolls collided.
C16_Witness ==
    /\ out.kind = "allocated"
    /\ out.k = MAX_ID_ATTEMPTS /\ out.first # out.last
    /\ delegations[out.first] # None
    /\ out.id = out.last

\* C17: ids are unique under concurrency: an insertion into the Registry
\* never replaces a Delegation that is already there under the same id.
C17_InsertionNeverReplaces ==
    [][\A i \in Ids :
        (delegations[i] # None /\ delegations'[i] # None) =>
            delegations'[i] = delegations[i]]_vars

\* C18: when session.create throws or returns no id, delegate() throws to
\* the submitter and leaves the Registry, the pending sets, the timers and
\* the Delegation objects as they were; nothing is dispatched.
C18_CreateFailureChangesNothing ==
    [][(out'.kind = "delegateThrew" /\ out'.why = "create") =>
        /\ call[out'.obj].pc = "creating" /\ call'[out'.obj].pc = "done"
        /\ UNCHANGED <<delegations, pendingByParent, tmo, deleg, dispatch, store>>]_vars

\* delegate() threw because no session could be created, while another
\* delegation of the same owner is registered and pending.
C18_Witness ==
    /\ out.kind = "delegateThrew" /\ out.why = "create"
    /\ deleg[out.obj] = NoDeleg /\ dispatch[out.obj] = "none"
    /\ \E p \in Parents : pendingByParent[p] # {}

\* C19: a dispatch that fails after the registration is not thrown to the
\* submitter, whose delegate() call has returned: the catch sets the status
\* error with the failure as reason and notifies the owner, and its
\* persistOutput, when the write succeeds, leaves the error transcript in
\* the owner's scope.
C19_DispatchFailureIsReported ==
    [][\A o \in Objs :
        /\ (dispatch[o] = "pending" /\ dispatch'[o] # "pending") =>
              \/ dispatch'[o] = "accepted"
              \/ /\ dispatch'[o] = "caught"
                 /\ call[o].pc = "done" /\ call'[o].pc = "done"
                 /\ deleg'[o].status = "error" /\ deleg'[o].error = "dispatch"
                 /\ out'.kind = "notify" /\ out'.obj = o /\ out'.id = deleg[o].id
                 /\ out'.to = deleg[o].parent /\ out'.status = "error"
        /\ (dispatch[o] = "caught" /\ dispatch'[o] # "caught") =>
              /\ dispatch'[o] = "settled"
              /\ faults' = faults =>
                    LET f == store'[<<RootOf(deleg[o].parent), deleg[o].id>>]
                    IN f.exists /\ f.obj = o /\ f.body = "error"
                       /\ f.status = deleg[o].status]_vars

\* The dispatch of a delegation failed after delegate() returned: the owner
\* was notified of the error and the error transcript is on file.
C19_Witness ==
    \E o \in Objs :
        /\ dispatch[o] = "settled" /\ call[o].pc = "done"
        /\ deleg[o].status = "error" /\ deleg[o].error = "dispatch"
        /\ LET f == store[<<RootOf(deleg[o].parent), deleg[o].id>>]
           IN f.exists /\ f.obj = o /\ f.body = "error" /\ f.status = "error"

C21_CancelMarksAndUnlinks ==
    [][\A c \in Cancels :
        LET k == <<RootOf(cancel[c].scope), cancel[c].id>>
        IN /\ (cancel[c].pc = "none" /\ cancel'[c].pc # "none") =>
                /\ cancel'[c].pc \in {"deleting", "unlinking"}
                /\ cancel'[c].pc = "deleting" <=>
                      /\ delegations[cancel'[c].id] # None
                      /\ deleg[delegations[cancel'[c].id]].status = "running"
           /\ (cancel[c].pc = "deleting" /\ cancel'[c].pc # "deleting") =>
                /\ cancel'[c].pc = "unlinking"
                /\ deleg'[cancel[c].obj].status = "cancelled"
           /\ (cancel[c].pc = "unlinking" /\ cancel'[c].pc # "unlinking") =>
                /\ out'.kind = "deleted" /\ out'.id = cancel[c].id
                /\ out'.result <=> (store[k].exists /\ ~store'[k].exists)
                /\ \A j \in DOMAIN store : j # k => store'[j] = store[j]]_vars

\* deleteDelegation returned false for a delegation that was running and had
\* no record: it is marked cancelled although its session could not be
\* deleted.
C21_Witness ==
    /\ out.kind = "deleted" /\ ~out.result /\ ~out.deleted
    /\ out.obj # None
    /\ deleg[out.obj].status = "cancelled"
    /\ ~store[<<RootOf(out.scope), out.id>>].exists

Terminal == {"complete", "error", "timeout", "cancelled"}

\* C22: terminal states are absorbing: once the status of a delegation is
\* complete, error, timeout or cancelled, no step changes its status or its
\* completedAt.
C22_TerminalIsAbsorbing ==
    [][\A o \in Objs : deleg[o].status \in Terminal =>
          /\ deleg'[o].status = deleg[o].status
          /\ deleg'[o].completedAt = deleg[o].completedAt]_vars

\* C23: the completion/timeout race.  Of handleSessionIdle and handleTimeout
\* only the first applies its transition: handleSessionIdle does not mark a
\* delegation that handleTimeout has marked, and handleTimeout does not mark
\* one that handleSessionIdle has marked.
C23_TransitionOnlyFromRunning ==
    [][/\ \A o \in Objs : (idle[o] = "guard" /\ idle'[o] = "mark") =>
                              deleg[o].status # "timeout"
       /\ \A o \in Objs : (tmo[o].pc = "guard" /\ tmo'[o].pc = "mark") =>
                              deleg[tmo[o].target].status # "complete"]_vars

\* C24: the pending sets.  An id is in the pending set of at most one owner;
\* an id leaves a pending set only in the step in which notifyParent sends
\* the notification that names it; and every notification removes the id it
\* names, so that no id is removed, or notified, a second time.
C24_PendingRemovedOnceAtNotification ==
    [][/\ \A i \in Ids : Cardinality({p \in Parents : i \in pendingByParent'[p]}) <= 1
       /\ \A p \in Parents, i \in Ids :
            (i \in pendingByParent[p] /\ i \notin pendingByParent'[p]) =>
                (out'.kind = "notify" /\ out'.id = i /\ out'.to = p)
       /\ out'.kind = "notify" => out'.id \in pendingByParent[out'.to]]_vars

\* Every delegation of owner p has reached a terminal state and none of its
\* handlers is suspended at an await.
Settled(p) ==
    \A o \in Objs : deleg[o].parent = p =>
        /\ deleg[o].status \in Terminal
        /\ call[o].pc = "done"
        /\ idle[o] = "none"
        /\ dispatch[o] \notin {"pending", "caught"}
        /\ \A q \in Objs : tmo[q].target # o

\* C25: cancellation does not block the batch barrier: when a delegation of
\* an owner was cancelled and every delegation of that owner has terminated
\* and been handled, the pending set of the owner is empty.
C25_CancelledLeavesPendingSet ==
    \A p \in Parents :
        (Settled(p) /\ \E o \in Objs : deleg[o].parent = p /\ deleg[o].status = "cancelled")
            => pendingByParent[p] = {}

\* C26: a result record is created once and never changed: once a file
\* exists for an id in a scope, a step either leaves it as it is or removes
\* it.
C26_RecordNeverRewritten ==
    [][\A k \in DOMAIN store :
          (store[k].exists /\ store'[k].exists) => store'[k] = store[k]]_vars

\* C28: failures of the calls made by handleSessionIdle and handleTimeout
\* are absorbed.  A handler that has set the terminal status goes through
\* its remaining steps to notifyParent, whatever failed on the way, and the
\* delegation it handles is not left running.
C28_HandlerFailuresAbsorbed ==
    [][\A o \in Objs :
        /\ idle[o] \in {"mark", "meta", "persisted"} => deleg[o].status # "running"
        /\ (idle[o] = "mark" /\ idle'[o] # "mark") => idle'[o] = "meta"
        /\ (idle[o] = "meta" /\ idle'[o] # "meta") => idle'[o] = "persisted"
        /\ (idle[o] = "persisted" /\ idle'[o] # "persisted") =>
              /\ idle'[o] = "none"
              /\ out'.kind = "notify" /\ out'.obj = o /\ out'.to = deleg[o].parent
        /\ tmo[o].pc \in {"mark", "persisted"} => deleg[tmo[o].target].status # "running"
        /\ (tmo[o].pc = "mark" /\ tmo'[o].pc # "mark") => tmo'[o].pc = "persisted"
        /\ (tmo[o].pc = "persisted" /\ tmo'[o].pc # "persisted") =>
              /\ out'.kind = "notify" /\ out'.obj = tmo[o].target]_vars

\* handleSessionIdle has notified the owner of a completed delegation whose
\* record could not be written.
C28_Witness ==
    /\ out.kind = "notify" /\ out.status = "complete"
    /\ faults = 1
    /\ deleg[out.obj].status = "complete" /\ deleg[out.obj].title
    /\ \A c \in Cancels : cancel[c].pc = "none"
    /\ ~store[<<RootOf(out.to), out.id>>].exists

\* C27: only failures before the registration reach the submitter: when
\* delegate() throws, its call has built no Delegation, has inserted nothing
\* in the Registry or in a pending set, and has armed no timer.
C27_ThrowsOnlyBeforeRegistration ==
    out.kind = "delegateThrew" =>
        /\ deleg[out.obj] = NoDeleg
        /\ tmo[out.obj].pc = "unarmed"
        /\ \A i \in Ids : delegations[i] # out.obj

\* C29 as stated: deleteDelegation on an id that is neither in the Registry
\* nor on file in the scope ends in an error: it returns a value only for an
\* id it found in the Registry or on file.
C29_UnknownIdIsAnError ==
    out.kind = "deleted" => (out.obj # None \/ out.existed)

\* C29, amended: deleteDelegation on an id that is neither in the Registry
\* nor on file in the scope returns false, and neither its look-up nor its
\* unlink changes the Registry, the pending sets, the delegations or the
\* store.
C29_UnknownIdReturnsFalse ==
    [][/\ \A c \in Cancels :
            (cancel[c].pc = "none" /\ cancel'[c].pc # "none" /\ cancel'[c].obj = None) =>
                UNCHANGED <<delegations, pendingByParent, deleg, store>>
       /\ (out'.kind = "deleted" /\ out'.obj = None /\ ~out'.existed) =>
            /\ ~out'.result
            /\ UNCHANGED <<delegations, pendingByParent, deleg, store>>]_vars

\* deleteDelegation returned false for an id the Registry did not hold and
\* the scope had no file for, while another id is registered and pending.
C29_Witness ==
    /\ out.kind = "deleted" /\ out.obj = None /\ ~out.existed /\ ~out.result
    /\ \E i \in Ids : delegations[i] # None /\ i # out.id
    /\ \E p \in Parents : pendingByParent[p] # {}

\* C30: when notifyParent sends a triggering notification (noReply false) to
\* an owner, no delegation of that owner held by the Registry is running.
C30_TriggeringNotificationIsTruthful ==
    (out.kind = "notify" /\ ~out.noReply) =>
        \A i \in Ids :
            delegations[i] # None =>
                ~(/\ deleg[delegations[i]].parent = out.to
                  /\ deleg[delegations[i]].status = "running")

\* C32: every item listDelegations reports for a record that is on file but
\* not in the Registry carries the status the record was persisted with.
C32_ListReportsRecordedStatus ==
    out.kind = "list" =>
        \A n \in 1..Len(out.items) :
            out.items[n].from = "disk" =>
                out.items[n].status = FileAt(out.scope, out.items[n].id).status

\* The session n parent links above s, stopping at a session without parent.
RECURSIVE Up(_, _)
Up(s, n) == IF n = 0 \/ tree[s] = None THEN s ELSE Up(tree[s], n - 1)

\* The number of parent links from s to its root, or -1 when the chain from s
\* is cyclic.
LinksToRoot(s) ==
    LET ns == {n \in 0..MaxLinks : tree[Up(s, n)] = None}
    IN IF ns = {} THEN -1 ELSE CHOOSE n \in ns : \A m \in ns : n <= m

\* s is within the depth the claim speaks of.
WithinReach(s) == LinksToRoot(s) >= 0 /\ LinksToRoot(s) <= MAX_DEPTH

C33_Bounded ==
    \A w \in Walkers :
        /\ resolve[w].lookups <= MAX_DEPTH
        /\ (resolve[w].pc = "returned" /\ ~resolve[w].failed
                /\ WithinReach(resolve[w].sessionID)) =>
              resolve[w].currentID = Up(resolve[w].sessionID, MaxLinks)
        /\ \A v \in Walkers :
              (/\ resolve[w].pc = "returned" /\ ~resolve[w].failed
               /\ resolve[v].pc = "returned" /\ ~resolve[v].failed
               /\ WithinReach(resolve[w].sessionID)
               /\ WithinReach(resolve[v].sessionID)) =>
                  getDelegationsDir(resolve[w].currentID) =
                      getDelegationsDir(resolve[v].currentID)

\* C33: getRootSessionID makes at most 10 parent lookups and returns, whether
\* the chain is rooted or cyclic and whether or not a lookup fails; when the
\* session is at most 10 parent links from its root and no lookup fails it
\* returns the root, so two such sessions of one tree resolve to the same
\* directory.
C33_RootResolution ==
    /\ []C33_Bounded
    /\ \A w \in Walkers : resolve[w].pc = "walking" ~> resolve[w].pc = "returned"

\* A session exactly 10 parent links from its root resolved to the root in
\* 10 lookups, and so did another session of the tree.
C33_Witness ==
    /\ resolve[1].pc = "returned" /\ ~resolve[1].failed
    /\ LinksToRoot(resolve[1].sessionID) = MAX_DEPTH
    /\ resolve[1].lookups = MAX_DEPTH
    /\ resolve[1].currentID = 1
    /\ resolve[2].pc = "returned" /\ ~resolve[2].failed
    /\ resolve[2].sessionID # resolve[1].sessionID
    /\ resolve[2].currentID = 1

\* C31: once deleteDelegation has returned for a delegation it found running
\* (the delegation is cancelled and no deleteDelegation call holds it), no
\* step puts the delegation in the Registry, writes a record for it or sends
\* a notification naming it.
C31_CancelIsFinal ==
    [][\A o \in Objs :
          (deleg[o].status = "cancelled" /\ \A c \in Cancels : cancel[c].obj # o) =>
              LET k == <<RootOf(deleg[o].parent), deleg[o].id>>
              IN /\ delegations'[deleg[o].id] # o
                 /\ ~(out'.kind = "notify" /\ out'.obj = o)
                 /\ ~(store'[k] # store[k] /\ store'[k].exists /\ store'[k].obj = o)]_vars

====
